---- MODULE Spec2Model ----
(***************************************************************************)
(* A model of the pantheon command interpreter: the Runner that replays a   *)
(* test's commands against a browser session, the commands' run handlers,   *)
(* and the thirtyfour adapter (Client / WebElement).                        *)
(*                                                                          *)
(* Time is discrete.  A wait's timeout T is a multiple of three time units, *)
(* so that the adapter's poll interval `timeout / 3` is exact.  Backend     *)
(* round trips take no time; only sleeping advances the clock.              *)
(***************************************************************************)
EXTENDS Integers, Sequences, FiniteSets, TLC

(* ------------------------------ bounds ---------------------------------- *)

\* timeouts are 0, 3, ..., 3 * MaxThird time units
MaxThird == 1
\* how many times run(test) is called on one Runner
MaxRuns == 2
\* how many direct adapter calls the caller makes between two runs
MaxApiOps == 3

Timeouts == {3 * k : k \in 0..MaxThird}

(* ------------------------------ values ---------------------------------- *)

\* Option<T>
None == [some |-> FALSE]
Some(v) == [some |-> TRUE, v |-> v]

\* serde_json::Value, as far as the store distinguishes values
JsonNull == [t |-> "null", v |-> ""]
JsonString(s) == [t |-> "string", v |-> s]
JsonValues == {JsonNull, JsonString(""), JsonString("Example")}

VarNames == {"title", "slogan"}

\* dialog texts, as sequences of characters
Texts == {<<"o", "k">>, <<"O", "k">>, <<" ", "o", "k">>, <<>>}

\* u32 window sizes, as two 16-bit halves (value = hi * 65536 + lo)
U32(hi, lo) == [hi |-> hi, lo |-> lo]
Sizes == {U32(0, 800), U32(32768, 0)}

\* RunnerErrorKind, and Ok(()) of Result<(), RunnerErrorKind>
Ok == [kind |-> "Ok"]
BackendError(op) == [kind |-> "BackendError", op |-> op]
Timeout(name) == [kind |-> "Timeout", name |-> name]
AssertFailed(l, r) == [kind |-> "AssertFailed", lhs |-> l, rhs |-> r]

\* a backend reply: a value, or the backend's error
Reply(v) == [ok |-> TRUE, v |-> v]
Fault(op) == [ok |-> FALSE, e |-> BackendError(op)]

(* ----------------------------- the store -------------------------------- *)

\* Runner::save_value: later writes overwrite, other keys are kept
save_value(d, name, v) ==
    [n \in (DOMAIN d) \cup {name} |-> IF n = name THEN v ELSE d[n]]

\* a get that takes a stored null for an unbound name
get_nullAsNone(d, name) ==
    IF name \in DOMAIN d /\ d[name] # JsonNull THEN Some(d[name]) ELSE None

\* runner.data.get(name): Some(&value) or None
get(d, name) == IF name \in DOMAIN d THEN Some(d[name]) ELSE None

EmptyStore == [n \in {} |-> JsonNull]

(* ----------------------------- commands --------------------------------- *)

WaitOps == {"WaitForElementPresent", "WaitForElementNotPresent",
            "WaitForElementVisible", "WaitForElementEditable",
            "WaitForElementNotEditable"}

Goto == [op |-> "Goto"]
Wait(op, T) == [op |-> op, timeout |-> T]
ExecuteAsync(script, variable) ==
    [op |-> "ExecuteAsync", script |-> script, variable |-> variable]
AssertAlert(text) == [op |-> "AssertAlert", text |-> text]
SetWindowSize(w, h) == [op |-> "SetWindowSize", width |-> w, heigth |-> h]

\* [Goto, WaitForElementVisible(#main, T), ExecuteAsync(.., Some("title"))]
ScenarioTests ==
    {<<Goto, Wait("WaitForElementVisible", T),
       ExecuteAsync("done(document.title)", Some("title"))>> : T \in Timeouts}

\* the tests handed to Runner::run
Tests ==
    ScenarioTests
    \cup {<<Wait("WaitForElementPresent", T), Wait("WaitForElementEditable", T),
            ExecuteAsync("done(1)", Some("slogan"))>> : T \in Timeouts}
    \cup {<<Wait("WaitForElementNotPresent", T),
            Wait("WaitForElementNotEditable", T),
            ExecuteAsync("done(1)", None)>> : T \in Timeouts}
    \cup {<<SetWindowSize(w, h), AssertAlert(t),
            ExecuteAsync("done(1)", Some("title"))>> :
              w \in Sizes, h \in {U32(0, 600)}, t \in {<<"o", "k">>, <<>>}}
    \cup {<<ExecuteAsync("done(1)", Some("title")),
            ExecuteAsync("done(1)", Some("title"))>>}

(* ------------------------ the commands' handlers ------------------------- *)

\* `x as i32` of a u32: the same 32 bits read as two's complement
AsI32(u) ==
    IF u.hi >= 32768 THEN (u.hi - 65536) * 65536 + u.lo ELSE u.hi * 65536 + u.lo

\* Client::set_window_size: one set_window_rect call, the sizes cast to i32
Client_set_window_size(width, height, accepted) ==
    [rect |-> [width |-> AsI32(width), height |-> AsI32(height)],
     res |-> IF accepted THEN Ok ELSE BackendError("set_window_rect")]

\* the set_window_size call a command makes, with what the adapter made of it
SizeCall(width, height, accepted) ==
    [op |-> "set_window_size", width |-> width, height |-> height,
     accepted |-> accepted,
     rect |-> Client_set_window_size(width, height, accepted).rect]

\* a SetWindowSize::run that passes its two fields the other way round
SetWindowSize_run_swapped(c, accepted) ==
    [call |-> SizeCall(c.heigth, c.width, accepted),
     res |-> Client_set_window_size(c.heigth, c.width, accepted).res]

\* SetWindowSize::run
SetWindowSize_run(c, accepted) ==
    [call |-> SizeCall(c.width, c.heigth, accepted),
     res |-> Client_set_window_size(c.width, c.heigth, accepted).res]

\* an AssertAlert::run that fills lhs and rhs the other way round
AssertAlert_run_swapped(text, alert) ==
    IF ~alert.ok THEN alert.e
    ELSE IF alert.v = text THEN Ok
    ELSE AssertFailed(text, alert.v)

\* an AssertAlert::run that reads a failed alert_text() as an empty text
AssertAlert_run_noDialogAsEmpty(text, alert) ==
    LET seen == IF alert.ok THEN alert.v ELSE <<>> IN
    IF seen = text THEN Ok ELSE AssertFailed(seen, text)

\* AssertAlert::run, given the backend's reply to alert_text()
AssertAlert_run(text, alert) ==
    IF ~alert.ok THEN alert.e
    ELSE IF alert.v = text THEN Ok
    ELSE AssertFailed(alert.v, text)

\* Client::execute: the script's value is handed back as it came
Client_execute(reply) == IF reply.ok THEN Reply(reply.v) ELSE reply

\* Runner::exec_async: routes the script through the backend, returns the raw
\* JSON result
Runner_exec_async(reply) == Client_execute(reply)

\* an ExecuteAsync::run that binds the name only when it is not bound yet
ExecuteAsync_run_keepFirst(variable, reply, d) ==
    IF ~reply.ok THEN [res |-> reply.e, data |-> d]
    ELSE IF variable.some /\ variable.v \notin DOMAIN d
         THEN [res |-> Ok, data |-> save_value(d, variable.v, reply.v)]
         ELSE [res |-> Ok, data |-> d]

\* an ExecuteAsync::run that binds null to the name when the script failed
ExecuteAsync_run_saveOnError(variable, reply, d) ==
    IF variable.some
    THEN [res |-> IF reply.ok THEN Ok ELSE reply.e,
          data |-> save_value(d, variable.v,
                              IF reply.ok THEN reply.v ELSE JsonNull)]
    ELSE [res |-> IF reply.ok THEN Ok ELSE reply.e, data |-> d]

\* ExecuteAsync::run: the result and the store it leaves
ExecuteAsync_run(variable, reply, d) ==
    LET res == Runner_exec_async(reply) IN
    IF ~res.ok THEN [res |-> res.e, data |-> d]
    ELSE IF variable.some
         THEN [res |-> Ok, data |-> save_value(d, variable.v, res.v)]
         ELSE [res |-> Ok, data |-> d]

(* --------------------- the adapter's wait primitives --------------------- *)

\* what the page holds for the locator
DomStates == {"absent", "hidden", "disabled", "editable"}
Displayed(dom) == dom \in {"disabled", "editable"}
Enabled(dom) == dom = "editable"

\* the condition each wait command waits for
Cond(op, dom) ==
    CASE op \in {"WaitForElementPresent", "wait_for_present"} -> dom # "absent"
      [] op \in {"WaitForElementNotPresent", "wait_for_not_present"} ->
           dom = "absent"
      [] op \in {"WaitForElementVisible", "wait_for_visible"} -> Displayed(dom)
      [] op \in {"WaitForElementEditable", "wait_for_editable"} ->
           Displayed(dom) /\ Enabled(dom)
      [] op = "WaitForElementNotEditable" -> ~(Displayed(dom) /\ Enabled(dom))

\* a wait(timeout, timeout): the interval is the whole timeout
Interval_whole(T) == T

\* the second argument of .wait(timeout, timeout / 3)
Interval(T) == T \div 3

\* the poller between two polls: go on while the timeout has not elapsed,
\* the next poll being due `interval * tries` after the start
PollerContinues(elapsed, T) == elapsed < T
PollerWake(T, tries) == Interval(T) * tries

\* how a query ends: "matched", "deadline" (timeout elapsed without a match)
\* or "fault" (the backend failed a poll with another error than
\* no-such-element, which ends the query at once)
\* .first(): the element, or an error when the deadline passed
Query_first(outcome) ==
    CASE outcome = "matched" -> Reply("element")
      [] outcome = "deadline" -> Fault("NoSuchElement")
      [] outcome = "fault" -> Fault("query")

\* .exists() and .not_exists(): a boolean, or the fault
Query_exists(outcome) ==
    CASE outcome = "matched" -> Reply(TRUE)
      [] outcome = "deadline" -> Reply(FALSE)
      [] outcome = "fault" -> Fault("query")

\* `e?; Ok(())`
Try(e) == IF e.ok THEN Ok ELSE e.e

\* wait_for_present and wait_for_not_present drop the boolean of exists() /
\* not_exists(): they return Ok(()) also when the deadline passed unmatched
Client_wait_for_visible(outcome) == Try(Query_first(outcome))
Client_wait_for_not_present(outcome) == Try(Query_exists(outcome))
Client_wait_for_present(outcome) == Try(Query_exists(outcome))
Client_wait_for_editable(outcome) == Try(Query_first(outcome))
\* not part of the adapter as given: fails when the deadline passes
Client_wait_for_not_editable(outcome) == Try(Query_first(outcome))

\* the adapter's wait primitives, as the caller may call them directly
Primitives == {"wait_for_visible", "wait_for_not_present", "wait_for_present",
               "wait_for_editable"}

Primitive(op, outcome) ==
    CASE op = "wait_for_visible" -> Client_wait_for_visible(outcome)
      [] op = "wait_for_not_present" -> Client_wait_for_not_present(outcome)
      [] op = "wait_for_present" -> Client_wait_for_present(outcome)
      [] op = "wait_for_editable" -> Client_wait_for_editable(outcome)

\* the wait commands: the primitive's error becomes a Timeout
WaitForElementPresent_run(outcome) ==
    IF Client_wait_for_present(outcome) = Ok THEN Ok
    ELSE Timeout("WaitForElementPresent")

WaitForElementNotPresent_run(outcome) ==
    IF Client_wait_for_not_present(outcome) = Ok THEN Ok
    ELSE Timeout("WaitForElementNotPresent")

WaitForElementEditable_run(outcome) ==
    IF Client_wait_for_editable(outcome) = Ok THEN Ok
    ELSE Timeout("WaitForElementPresent")

WaitForElementNotEditable_run(outcome) ==
    IF Client_wait_for_not_editable(outcome) = Ok THEN Ok
    ELSE Timeout("WaitForElementPresent")

\* WaitForElementVisible::run: sleeps for the timeout, then Ok(())
WaitForElementVisible_run(timeout) == [sleep |-> timeout, res |-> Ok]

WaitCommand_run(op, outcome) ==
    CASE op = "WaitForElementPresent" -> WaitForElementPresent_run(outcome)
      [] op = "WaitForElementNotPresent" -> WaitForElementNotPresent_run(outcome)
      [] op = "WaitForElementEditable" -> WaitForElementEditable_run(outcome)
      [] op = "WaitForElementNotEditable" -> WaitForElementNotEditable_run(outcome)

(* ------------------------------ Runner::run ------------------------------ *)

\* a run loop that goes on to the next command after a failure
Runner_run_continue(res, step, len) ==
    IF step = len
    THEN [status |-> IF res = Ok THEN "Completed" ELSE "Failed", step |-> step,
          result |-> res]
    ELSE [status |-> "Running", step |-> step + 1, result |-> Ok]

\* for cmd in test.commands { cmd.run(self).await? } Ok(()): what follows
\* command `step` returning `res`
Runner_run(res, step, len) ==
    IF res # Ok THEN [status |-> "Failed", step |-> step, result |-> res]
    ELSE IF step = len
         THEN [status |-> "Completed", step |-> step, result |-> Ok]
         ELSE [status |-> "Running", step |-> step + 1, result |-> Ok]

\* a Runner that can be used for one run only
Runner_accepts_once(st) == st = "Idle"

\* run(&mut self, test) may be called on a Runner that has not run yet and on
\* one whose last run returned, whatever it returned
Runner_accepts(st) == st \in {"Idle", "Completed", "Failed"}

(* ---------------------- the adapter's element calls ---------------------- *)

\* the strings the backend reports as the current URL, as sequences of parts
Urls == {<<"https", ":", "//example.test/">>, <<"example.test/">>, <<>>}

\* Url::parse: an absolute URL starts with a scheme and a colon
Url_parse(s) ==
    IF Len(s) >= 2 /\ s[1] # ":" /\ s[2] = ":"
    THEN Reply([scheme |-> s[1], rest |-> SubSeq(s, 3, Len(s))])
    ELSE [ok |-> FALSE, e |-> "RelativeUrlWithoutBase"]

\* Client::current_url: `?` on the backend's reply, then Url::parse(..).unwrap(),
\* which panics on a parse error
Client_current_url(reply) ==
    IF ~reply.ok THEN [panic |-> FALSE, ret |-> reply]
    ELSE LET u == Url_parse(reply.v) IN
         IF u.ok THEN [panic |-> FALSE, ret |-> Reply(u.v)]
         ELSE [panic |-> TRUE, ret |-> None]

\* a click that hands the driver back whatever the action did
WebElement_click_swallow(clicked) == Reply("Client")

\* WebElement::click: Result<Client, Error>
WebElement_click(clicked) ==
    IF clicked THEN Reply("Client") ELSE Fault("click")

\* WebElement::select_by_index
WebElement_select_by_index(isSelect, selected) ==
    IF ~isSelect THEN Fault("SelectElement::new")
    ELSE IF ~selected THEN Fault("select_by_index")
    ELSE Reply("Client")

\* WebElement::select_by_value
WebElement_select_by_value(isSelect, selected) ==
    IF ~isSelect THEN Fault("SelectElement::new")
    ELSE IF ~selected THEN Fault("select_by_value")
    ELSE Reply("Client")

\* Client::find: the element handle, or the backend's error
Client_find(found) == IF found THEN Reply("WebElement") ELSE Fault("find_element")

(* ------------------------------- state ----------------------------------- *)

VARIABLES
    status,   \* of the Runner: "Idle", "Running", "Completed", "Failed"
    test,     \* the command list of the current run
    step,     \* index of the current command
    pc,       \* where the current command is: "next", "poll", "sleep", "nap"
    data,     \* Runner.data, the variable store
    result,   \* what run(test) returned
    log,      \* the commands of this run that returned, with their results
    trace,    \* the indices of the commands of this run that were started
    runs,     \* number of run(test) calls so far
    w,        \* the wait in progress: clock, polls, the page's element
    last,     \* the timing of the last wait command that returned
    calls,    \* the backend calls the last command made
    session,  \* the backend session: "open", "closed"
    handle,   \* the caller's element handle: "none", "held", "consumed"
    apiLog,   \* the caller's direct adapter calls, with what they returned
    flow,     \* the executing flow: "ok", "panicked"
    prev,     \* how the Runner's previous run ended: "none", "Completed", "Failed"
    hook,     \* the page's prompt handler: native, or armed with an answer
    events    \* the answer_on_next_prompt calls and the page's prompt dialogs

vars == <<status, test, step, pc, data, result, log, trace, runs, w, last,
          calls, session, handle, apiLog, flow, prev, hook, events>>

Pending == [kind |-> "Pending"]
NoWait == [op |-> "none", timeout |-> 0, elapsed |-> 0, tries |-> 0,
           dom |-> "absent", met |-> FALSE, since |-> -1]
NoObs == [op |-> "none", res |-> Pending, elapsed |-> 0, timeout |-> 0,
          met |-> FALSE, since |-> -1, fault |-> FALSE]

Init ==
    /\ status = "Idle"
    /\ test = <<>>
    /\ step = 0
    /\ pc = "next"
    /\ data = EmptyStore
    /\ result = Pending
    /\ log = <<>>
    /\ trace = <<>>
    /\ runs = 0
    /\ w = NoWait
    /\ last = NoObs
    /\ calls = <<>>
    /\ session = "open"
    /\ handle = "none"
    /\ apiLog = <<>>
    /\ flow = "ok"
    /\ prev = "none"
    /\ hook = None
    /\ events = <<>>

Alive == session = "open" /\ flow = "ok"
cmd == test[step]

(* ------------------------------ the Runner ------------------------------- *)

\* runner.run(&test): the caller's element handles and results are dropped
StartRun(t) ==
    /\ Alive
    /\ Runner_accepts(status)
    /\ pc = "next"
    /\ runs < MaxRuns
    /\ status' = "Running"
    /\ test' = t
    /\ step' = 1
    /\ pc' = "next"
    /\ result' = Pending
    /\ log' = <<>>
    /\ trace' = <<>>
    /\ runs' = runs + 1
    /\ last' = NoObs
    /\ calls' = <<>>
    /\ handle' = "none"
    /\ apiLog' = <<>>
    /\ prev' = IF status = "Idle" THEN "none" ELSE status
    /\ UNCHANGED <<data, w, session, flow, hook, events>>

\* command `step` returned `res`: the loop of Runner::run goes on or returns
Return(res, met) ==
    LET nxt == Runner_run(res, step, Len(test)) IN
    /\ status' = nxt.status
    /\ step' = nxt.step
    /\ result' = IF nxt.status = "Running" THEN Pending ELSE nxt.result
    /\ log' = Append(log, [idx |-> step, op |-> cmd.op, res |-> res, met |-> met])
    /\ pc' = "next"
    /\ w' = NoWait
    /\ UNCHANGED <<test, runs, session, handle, apiLog, flow>>

Ready == Alive /\ status = "Running" /\ pc = "next"

DoGoto ==
    /\ Ready
    /\ cmd.op = "Goto"
    /\ \E loaded \in BOOLEAN :
         Return(IF loaded THEN Ok ELSE BackendError("goto"), FALSE)
    /\ calls' = <<[op |-> "get"]>>
    /\ trace' = Append(trace, step)
    /\ UNCHANGED <<data, last>>
    /\ UNCHANGED <<prev, hook, events>>

DoSetWindowSize ==
    /\ Ready
    /\ cmd.op = "SetWindowSize"
    /\ \E accepted \in BOOLEAN :
         LET r == SetWindowSize_run(cmd, accepted) IN
         /\ Return(r.res, FALSE)
         /\ calls' = <<r.call>>
    /\ trace' = Append(trace, step)
    /\ UNCHANGED <<data, last>>
    /\ UNCHANGED <<prev, hook, events>>

\* an AssertAlert that keeps the text it read in the store
DoAssertAlert_savesText ==
    /\ Ready
    /\ cmd.op = "AssertAlert"
    /\ \E alert \in {Reply(t) : t \in Texts} \cup {Fault("alert_text")} :
         /\ Return(AssertAlert_run(cmd.text, alert), FALSE)
         /\ calls' = <<[op |-> "alert_text", reply |-> alert]>>
    /\ trace' = Append(trace, step)
    /\ data' = save_value(data, "alert", JsonNull)
    /\ UNCHANGED last
    /\ UNCHANGED <<prev, hook, events>>

DoAssertAlert ==
    /\ Ready
    /\ cmd.op = "AssertAlert"
    /\ \E alert \in {Reply(t) : t \in Texts} \cup {Fault("alert_text")} :
         /\ Return(AssertAlert_run(cmd.text, alert), FALSE)
         /\ calls' = <<[op |-> "alert_text", reply |-> alert]>>
    /\ trace' = Append(trace, step)
    /\ UNCHANGED <<data, last>>
    /\ UNCHANGED <<prev, hook, events>>

DoExecuteAsync ==
    /\ Ready
    /\ cmd.op = "ExecuteAsync"
    /\ \E reply \in {Reply(v) : v \in JsonValues} \cup {Fault("execute")} :
         LET r == ExecuteAsync_run(cmd.variable, reply, data) IN
         /\ Return(r.res, FALSE)
         /\ data' = r.data
         /\ calls' = <<[op |-> "execute", script |-> cmd.script,
                        reply |-> reply]>>
    /\ trace' = Append(trace, step)
    /\ UNCHANGED last
    /\ UNCHANGED <<prev, hook, events>>

\* before the session is handed to a run, the caller may use the adapter
CanCall ==
    Alive /\ status = "Idle" /\ pc = "next" /\ Len(apiLog) < MaxApiOps

\* `acted`: whether the backend carried the action out
Called(op, acted, ret) ==
    apiLog' = Append(apiLog, [op |-> op, acted |-> acted, ret |-> ret])

(* --------------------------- the wait commands --------------------------- *)

Obs(res, fault) ==
    [op |-> w.op, res |-> res, elapsed |-> w.elapsed, timeout |-> w.timeout,
     met |-> w.met, since |-> w.since, fault |-> fault]

\* a wait begins: the page holds the element in some state
Begin(op, T, d) ==
    [op |-> op, timeout |-> T, elapsed |-> 0, tries |-> 0, dom |-> d,
     met |-> Cond(op, d), since |-> IF Cond(op, d) THEN 0 ELSE -1]

\* a wait command starts: the page holds the element in some state
WaitStart ==
    /\ Ready
    /\ cmd.op \in WaitOps
    /\ \E d \in DomStates : w' = Begin(cmd.op, cmd.timeout, d)
    /\ pc' = IF cmd.op = "WaitForElementVisible" THEN "nap" ELSE "poll"
    /\ trace' = Append(trace, step)
    /\ calls' = <<>>
    /\ UNCHANGED <<status, test, step, data, result, log, runs, last, session,
                   handle, apiLog, flow>>
    /\ UNCHANGED <<prev, hook, events>>

Waiting == Alive /\ pc \in {"poll", "sleep", "nap"}

\* the page changes under the waiting command
DomMutate ==
    /\ Waiting
    /\ \E d \in DomStates \ {w.dom} :
         w' = [w EXCEPT !.dom = d,
                        !.met = @ \/ Cond(w.op, d),
                        !.since = IF ~Cond(w.op, d) THEN -1
                                  ELSE IF Cond(w.op, w.dom) THEN @
                                  ELSE w.elapsed]
    /\ UNCHANGED <<status, test, step, pc, data, result, log, trace, runs, last,
                   calls, session, handle, apiLog, flow>>
    /\ UNCHANGED <<prev, hook, events>>

\* one poll of the query, and the poller's tick when nothing matched
Poll ==
    /\ Waiting
    /\ pc = "poll"
    /\ \E fault \in BOOLEAN :
         LET outcome ==
               IF fault THEN "fault"
               ELSE IF Cond(w.op, w.dom) THEN "matched"
               ELSE IF PollerContinues(w.elapsed, w.timeout) THEN "again"
               ELSE "deadline"
         IN
         IF outcome = "again"
         THEN /\ w' = [w EXCEPT !.tries = @ + 1]
              /\ pc' = IF w.elapsed < PollerWake(w.timeout, w.tries + 1)
                       THEN "sleep" ELSE "poll"
              /\ UNCHANGED <<status, test, step, result, log, runs, last,
                             session, handle, apiLog, flow>>
         ELSE IF status = "Running"
         THEN /\ Return(WaitCommand_run(w.op, outcome), w.met)
              /\ last' = Obs(WaitCommand_run(w.op, outcome), fault)
         ELSE /\ last' = Obs(Primitive(w.op, outcome), fault)
              /\ pc' = "next"
              /\ w' = NoWait
              /\ UNCHANGED <<status, test, step, result, log, runs, session,
                             handle, apiLog, flow>>
    /\ UNCHANGED <<data, trace, calls>>
    /\ UNCHANGED <<prev, hook, events>>

\* the poller sleeps until the next poll is due
Sleep ==
    /\ Waiting
    /\ pc = "sleep"
    /\ w' = [w EXCEPT !.elapsed = @ + 1]
    /\ pc' = IF w.elapsed + 1 < PollerWake(w.timeout, w.tries)
             THEN "sleep" ELSE "poll"
    /\ UNCHANGED <<status, test, step, data, result, log, trace, runs, last,
                   calls, session, handle, apiLog, flow>>
    /\ UNCHANGED <<prev, hook, events>>

\* WaitForElementVisible: tokio::time::sleep(self.timeout)
Nap ==
    /\ Waiting
    /\ pc = "nap"
    /\ w.elapsed < WaitForElementVisible_run(w.timeout).sleep
    /\ w' = [w EXCEPT !.elapsed = @ + 1]
    /\ UNCHANGED <<status, test, step, pc, data, result, log, trace, runs, last,
                   calls, session, handle, apiLog, flow>>
    /\ UNCHANGED <<prev, hook, events>>

NapDone ==
    /\ Waiting
    /\ pc = "nap"
    /\ w.elapsed >= WaitForElementVisible_run(w.timeout).sleep
    /\ Return(WaitForElementVisible_run(w.timeout).res, w.met)
    /\ last' = Obs(WaitForElementVisible_run(w.timeout).res, FALSE)
    /\ UNCHANGED <<data, trace, calls>>
    /\ UNCHANGED <<prev, hook, events>>

(* ------------------- the caller's direct adapter calls ------------------- *)

\* client.wait_for_*(locator, timeout), called by the caller itself
ApiWait ==
    /\ Alive
    /\ status = "Idle"
    /\ pc = "next"
    /\ \E op \in Primitives, T \in Timeouts, d \in DomStates :
         w' = Begin(op, T, d)
    /\ pc' = "poll"
    /\ UNCHANGED <<status, test, step, data, result, log, trace, runs, last,
                   calls, session, handle, apiLog, flow>>
    /\ UNCHANGED <<prev, hook, events>>

ApiFind ==
    /\ CanCall
    /\ \E found \in BOOLEAN :
         /\ Called("find", found, Client_find(found))
         /\ handle' = IF found THEN "held" ELSE "none"
    /\ UNCHANGED <<status, test, step, pc, data, result, log, trace, runs, w,
                   last, calls, session, flow>>
    /\ UNCHANGED <<prev, hook, events>>

\* click(mut self): the element is moved into the call
ApiClick ==
    /\ CanCall
    /\ handle = "held"
    /\ \E clicked \in BOOLEAN :
         Called("click", clicked, WebElement_click(clicked))
    /\ handle' = "consumed"
    /\ UNCHANGED <<status, test, step, pc, data, result, log, trace, runs, w,
                   last, calls, session, flow>>
    /\ UNCHANGED <<prev, hook, events>>

ApiSelectByIndex ==
    /\ CanCall
    /\ handle = "held"
    /\ \E isSelect \in BOOLEAN, selected \in BOOLEAN :
         Called("select_by_index", isSelect /\ selected,
                WebElement_select_by_index(isSelect, selected))
    /\ handle' = "consumed"
    /\ UNCHANGED <<status, test, step, pc, data, result, log, trace, runs, w,
                   last, calls, session, flow>>
    /\ UNCHANGED <<prev, hook, events>>

ApiSelectByValue ==
    /\ CanCall
    /\ handle = "held"
    /\ \E isSelect \in BOOLEAN, selected \in BOOLEAN :
         Called("select_by_value", isSelect /\ selected,
                WebElement_select_by_value(isSelect, selected))
    /\ handle' = "consumed"
    /\ UNCHANGED <<status, test, step, pc, data, result, log, trace, runs, w,
                   last, calls, session, flow>>
    /\ UNCHANGED <<prev, hook, events>>

ApiCurrentUrl ==
    /\ CanCall
    /\ \E reply \in {Reply(u) : u \in Urls} \cup {Fault("current_url")} :
         LET r == Client_current_url(reply) IN
         /\ Called("current_url", reply.ok, [reply |-> reply, ret |-> r.ret])
         /\ flow' = IF r.panic THEN "panicked" ELSE "ok"
    /\ UNCHANGED <<status, test, step, pc, data, result, log, trace, runs, w,
                   last, calls, session, handle>>
    /\ UNCHANGED <<prev, hook, events>>

\* runner.close(): the session is released; nothing may follow
Close ==
    /\ Alive
    /\ status # "Running"
    /\ pc = "next"
    /\ session' = "closed"
    /\ UNCHANGED <<status, test, step, pc, data, result, log, trace, runs, w,
                   last, calls, handle, apiLog, flow>>
    /\ UNCHANGED <<prev, hook, events>>

Next ==
    \/ \E t \in Tests : StartRun(t)
    \/ DoGoto
    \/ DoSetWindowSize
    \/ DoAssertAlert
    \/ DoExecuteAsync
    \/ WaitStart
    \/ DomMutate
    \/ Poll
    \/ Sleep
    \/ Nap
    \/ NapDone
    \/ ApiFind
    \/ ApiClick
    \/ ApiSelectByIndex
    \/ ApiSelectByValue
    \/ ApiCurrentUrl
    \/ Close

Spec == Init /\ [][Next]_vars

\* the caller drives the adapter's wait primitives itself, with no runner
NextWait ==
    \/ ApiWait
    \/ DomMutate
    \/ Poll
    \/ Sleep

SpecWait == Init /\ [][NextWait]_vars

(* ------------------------ answer_on_next_prompt -------------------------- *)

\* how many answer_on_next_prompt calls and prompt dialogs are followed
MaxEvents == 3

\* strings are sequences of code points: 0 NUL, 34 ", 48 0, 49 1, 56 8,
\* 92 \, 97 a
Answers == {<<>>, <<97>>, <<34>>, <<92>>, <<97, 34>>, <<92, 92>>, <<0>>,
            <<0, 49>>, <<0, 56>>}

\* char::escape_debug as `{:?}` applies it to the characters of a str
escape_debug(c) ==
    CASE c = 0 -> <<92, 48>>
      [] c = 34 -> <<92, 34>>
      [] c = 92 -> <<92, 92>>
      [] OTHER -> <<c>>

RECURSIVE escape_str(_)
escape_str(str) ==
    IF str = <<>> THEN <<>>
    ELSE escape_debug(Head(str)) \o escape_str(Tail(str))

\* `{:?}` of a &str: the escaped characters between double quotes
fmt_debug(str) == <<34>> \o escape_str(str) \o <<34>>

REPLACE_ALERT_METHOD == "replaceAlertMethod.js"
ANSWER_ON_NEXT_PROMPT == "answerOnNextPrompt.js"

\* format!("{}{} replaceAlertMethod(null); answerOnNextPrompt({:?});", ..)
Code(answer) ==
    <<REPLACE_ALERT_METHOD, ANSWER_ON_NEXT_PROMPT,
      " replaceAlertMethod(null); answerOnNextPrompt(", fmt_debug(answer),
      ");">>

OctalDigits == 48..55

SyntaxError == [ok |-> FALSE]

\* the browser reads the argument text as a string literal; \0 followed by
\* a digit is a legacy octal escape, a SyntaxError in strict code
RECURSIVE StringLiteral(_, _, _, _)
StringLiteral(lit, i, acc, strict) ==
    IF i > Len(lit) THEN SyntaxError
    ELSE IF lit[i] = 34
    THEN IF i = Len(lit) THEN [ok |-> TRUE, v |-> acc] ELSE SyntaxError
    ELSE IF lit[i] # 92
    THEN StringLiteral(lit, i + 1, Append(acc, lit[i]), strict)
    ELSE IF i + 1 > Len(lit) THEN SyntaxError
    ELSE IF lit[i + 1] # 48
    THEN StringLiteral(lit, i + 2, Append(acc, lit[i + 1]), strict)
    ELSE IF i + 2 > Len(lit) \/ lit[i + 2] \notin 48..57
    THEN StringLiteral(lit, i + 2, Append(acc, 0), strict)
    ELSE IF strict THEN SyntaxError
    ELSE IF lit[i + 2] \notin OctalDigits
    THEN StringLiteral(lit, i + 2, Append(acc, 0), strict)
    ELSE IF i + 3 <= Len(lit) /\ lit[i + 3] \in OctalDigits
    THEN StringLiteral(lit, i + 4,
                       Append(acc, 8 * (lit[i + 2] - 48) + lit[i + 3] - 48),
                       strict)
    ELSE StringLiteral(lit, i + 3, Append(acc, lit[i + 2] - 48), strict)

\* the value the page's answerOnNextPrompt(..) receives
Argument(code, strict) ==
    IF Len(code[4]) = 0 \/ code[4][1] # 34 THEN SyntaxError
    ELSE StringLiteral(code[4], 2, <<>>, strict)

\* Runner::exec: the script goes to the backend once, the value is dropped
Runner_exec(reply) == IF reply.ok THEN Ok ELSE reply.e

\* answer_on_next_prompt(runner, answer): `runner.exec(&code).await?; Ok(())`
answer_on_next_prompt(reply) == Runner_exec(reply)

CanPrompt ==
    /\ Alive
    /\ status = "Idle"
    /\ pc = "next"
    /\ Len(events) < MaxEvents

\* one call of answer_on_next_prompt; the page runs the script when the
\* backend accepts it: the install call, then the arm call with the argument
AnswerOnNextPrompt ==
    /\ CanPrompt
    /\ \E answer \in Answers, accepted \in BOOLEAN, strict \in BOOLEAN :
         LET code == Code(answer)
             arg == Argument(code, strict)
             reply == IF accepted /\ arg.ok THEN Reply(JsonNull)
                      ELSE Fault("execute")
         IN /\ calls' = <<[op |-> "execute", script |-> code,
                           reply |-> reply]>>
            /\ hook' = IF reply.ok THEN Some(arg.v) ELSE hook
            /\ events' = Append(events,
                                [op |-> "answer_on_next_prompt",
                                 answer |-> answer,
                                 res |-> answer_on_next_prompt(reply)])
    /\ UNCHANGED <<status, test, step, pc, data, result, log, trace, runs, w,
                   last, session, handle, apiLog, flow, prev>>

\* the page opens a prompt dialog: an armed handler answers it once and
\* disarms itself, otherwise the browser's own dialog is shown
PagePrompt ==
    /\ CanPrompt
    /\ events' = Append(events,
                        IF hook.some
                        THEN [op |-> "prompt", by |-> "shim", answer |-> hook.v]
                        ELSE [op |-> "prompt", by |-> "native"])
    /\ hook' = None
    /\ UNCHANGED <<status, test, step, pc, data, result, log, trace, runs, w,
                   last, calls, session, handle, apiLog, flow, prev>>

NextPrompt ==
    \/ AnswerOnNextPrompt
    \/ PagePrompt

SpecPrompt == Init /\ [][NextPrompt]_vars

(* ------------------------------ the claims ------------------------------- *)

LastLog == log[Len(log)]

\* C1: run executes the commands strictly in list order, one at a time; the
\* first command to fail is the last one executed, and run returns exactly
\* its error; a run that completes has executed every command once.
C1_SequentialFailFast ==
    /\ trace = [i \in 1..Len(trace) |-> i]
    /\ Len(trace) <= Len(test)
    /\ Len(log) \in {Len(trace), Len(trace) - 1}
    /\ \A i \in DOMAIN log : log[i].idx = i /\ log[i].op = test[i].op
    /\ \A i \in 1..(Len(log) - 1) : log[i].res = Ok
    /\ status = "Running" =>
         /\ step = Len(log) + 1
         /\ \A i \in DOMAIN log : log[i].res = Ok
         /\ Len(trace) = Len(log) <=> pc = "next"
    /\ status = "Failed" =>
         /\ Len(log) = Len(trace)
         /\ step = Len(log)
         /\ LastLog.res # Ok
         /\ result = LastLog.res
    /\ status = "Completed" =>
         /\ Len(log) = Len(test)
         /\ Len(trace) = Len(test)
         /\ \A i \in DOMAIN log : log[i].res = Ok
         /\ result = Ok

\* a run that failed at its second command of three, the third never started
C1_Witness ==
    /\ status = "Failed"
    /\ Len(test) = 3
    /\ trace = <<1, 2>>
    /\ result = AssertFailed(<<"O", "k">>, <<"o", "k">>)

\* C2: a WaitForElementVisible whose element never became visible while it
\* waited fails with Timeout("WaitForElementVisible"); the scenario test on
\* a page that never shows the element ends Failed at the wait, with
\* ExecuteAsync not executed and "title" unbound.
C2_VisibleTimesOut ==
    /\ \A i \in DOMAIN log :
         (log[i].op = "WaitForElementVisible" /\ test[i].timeout > 0
            /\ ~log[i].met)
           => log[i].res = Timeout("WaitForElementVisible")
    /\ (/\ runs = 1
        /\ test \in ScenarioTests
        /\ status \in {"Completed", "Failed"}
        /\ Len(log) >= 2
        /\ test[2].timeout > 0
        /\ ~log[2].met)
         => (/\ status = "Failed"
             /\ Len(log) = 2
             /\ get(data, "title") = None)

\* C3: a wait command that fails returns Timeout carrying its own name.
C3_TimeoutCarriesOwnName ==
    \A i \in DOMAIN log :
      (log[i].op \in WaitOps /\ log[i].res # Ok)
        => log[i].res = Timeout(log[i].op)

\* C4: a wait command whose condition was never true while it waited does
\* not return a Timeout before its timeout has elapsed, also when a poll of
\* the backend fails at once.
C4_TimeoutNotBeforeDeadline ==
    (last.op \in WaitOps /\ ~last.met /\ last.res.kind = "Timeout")
      => last.elapsed >= last.timeout

\* C5: a wait command whose condition has held since a time t < T (and whose
\* polls the backend answered) returns success, no later than one poll
\* interval after t.
C5_SuccessAtFirstPollAfterCondition ==
    (last.op \in WaitOps /\ ~last.fault /\ last.since >= 0
     /\ last.since < last.timeout)
      => (/\ last.res = Ok
          /\ last.elapsed <= last.since + Interval(last.timeout))

\* C5 holds of the wait commands that poll
C5_PollingWaits ==
    (last.op \in WaitOps \ {"WaitForElementVisible"} /\ ~last.fault
     /\ last.since >= 0 /\ last.since < last.timeout)
      => (/\ last.res = Ok
          /\ last.elapsed <= last.since + Interval(last.timeout))

\* the command that returned last was an AssertAlert that read a dialog text
AlertRead ==
    /\ Len(log) > 0
    /\ LastLog.op = "AssertAlert"
    /\ Len(calls) = 1
    /\ calls[1].op = "alert_text"
    /\ calls[1].reply.ok

\* C6: AssertAlert(text) returns Ok exactly when the dialog text read from
\* the backend is the same string as text; for any other text it returns
\* AssertFailed with lhs the observed and rhs the expected text.
C6_AssertAlertExact ==
    AlertRead =>
      LET observed == calls[1].reply.v
          expected == test[Len(log)].text
      IN /\ LastLog.res = Ok <=> observed = expected
         /\ observed # expected => LastLog.res = AssertFailed(observed, expected)

\* a dialog text that differs from the expected one by a leading blank only
C6_Witness ==
    /\ AlertRead
    /\ calls[1].reply.v = <<" ", "o", "k">>
    /\ test[Len(log)].text = <<"o", "k">>
    /\ result = AssertFailed(<<" ", "o", "k">>, <<"o", "k">>)

\* the step in which an ExecuteAsync with a variable name returns Ok
ExecuteAsyncBound ==
    /\ status = "Running"
    /\ pc = "next"
    /\ cmd.op = "ExecuteAsync"
    /\ cmd.variable.some
    /\ Len(log') = Len(log) + 1
    /\ log'[Len(log')].res = Ok

\* C7: a successful ExecuteAsync(script, Some(name)) binds name to the value
\* the script returned, replacing an earlier binding and leaving the other
\* bindings alone; no other step changes the store, so that a completed
\* scenario test leaves "title" bound to the value its script returned.
C7_ExecuteAsyncBinds ==
    /\ [][/\ ExecuteAsyncBound =>
               /\ get(data', cmd.variable.v) = Some(calls'[1].reply.v)
               /\ \A n \in VarNames \ {cmd.variable.v} :
                    get(data', n) = get(data, n)
          /\ data' # data => ExecuteAsyncBound]_vars
    /\ []((status = "Completed" /\ test \in ScenarioTests)
            => get(data, "title") = Some(calls[1].reply.v))

\* the scenario test completed, in the Runner's second run, on a page whose
\* title is "Example"
C7_Witness ==
    /\ status = "Completed"
    /\ test \in ScenarioTests
    /\ calls[1].reply = Reply(JsonString("Example"))
    /\ get(data, "title") = Some(JsonString("Example"))
    /\ runs = 2

\* the names a run bound: its ExecuteAsync commands that returned Ok
BoundBy(l, t) ==
    {t[i].variable.v : i \in {j \in DOMAIN l : /\ l[j].op = "ExecuteAsync"
                                               /\ l[j].res = Ok
                                               /\ t[j].variable.some}}

\* C8: get after save_value returns the saved value, a later save_value on
\* the name overwrites, other names are not touched, and a name that was
\* never saved reads as None, which differs from a saved null or "".
C8_StoreRoundTrip ==
    /\ \A n \in VarNames, v \in JsonValues :
         /\ get(save_value(data, n, v), n) = Some(v)
         /\ \A v2 \in JsonValues :
              get(save_value(save_value(data, n, v), n, v2), n) = Some(v2)
         /\ \A m \in VarNames \ {n} : get(save_value(data, n, v), m) = get(data, m)
         /\ Some(v) # None
    /\ runs <= 1 =>
         \A n \in VarNames : n \notin BoundBy(log, test) <=> get(data, n) = None

\* "title" was saved as null and "slogan" never: the two read differently
C8_Witness ==
    /\ runs = 1
    /\ get(data, "title") = Some(JsonNull)
    /\ get(data, "slogan") = None

ElementActions == {"click", "select_by_index", "select_by_value"}

\* C9 as stated: click and the selects hand the Driver back whether the
\* action succeeds or fails.
C9_DriverReturnedAlways ==
    \A i \in DOMAIN apiLog :
      apiLog[i].op \in ElementActions => apiLog[i].ret = Reply("Client")

\* C9 as amended: click and the selects consume the element handle; they
\* return the Driver when the action succeeds and only the BackendError
\* when it fails; the session stays open either way, and the caller can go
\* on to use it.
C9_DriverOnSuccessOnly ==
    /\ \A i \in DOMAIN apiLog :
         apiLog[i].op \in ElementActions =>
           /\ apiLog[i].acted <=> apiLog[i].ret = Reply("Client")
           /\ ~apiLog[i].acted =>
                /\ ~apiLog[i].ret.ok
                /\ apiLog[i].ret.e.kind = "BackendError"
    /\ (Len(apiLog) > 0 /\ apiLog[Len(apiLog)].op \in ElementActions) =>
         /\ handle = "consumed"
         /\ flow = "ok"
         /\ session = "open" => ENABLED (\E t \in Tests : StartRun(t))

\* a click failed, and the caller's next find on the session succeeded
C9_Witness ==
    \E i \in DOMAIN apiLog :
      /\ apiLog[i].op = "click"
      /\ ~apiLog[i].acted
      /\ i < Len(apiLog)
      /\ apiLog[i + 1].op = "find"
      /\ apiLog[i + 1].ret.ok
      /\ handle = "held"

\* C10: current_url returns the parsed URL, or an error value when the
\* reported string does not parse; the executing flow is never aborted.
C10_CurrentUrlReturnsError ==
    /\ flow = "ok"
    /\ \A i \in DOMAIN apiLog :
         (apiLog[i].op = "current_url" /\ apiLog[i].ret.reply.ok) =>
           LET u == Url_parse(apiLog[i].ret.reply.v) IN
           IF u.ok THEN apiLog[i].ret.ret = Reply(u.v)
           ELSE apiLog[i].ret.ret # None /\ ~apiLog[i].ret.ret.ok

\* the command that returned last was a SetWindowSize
SizeSet ==
    /\ Len(log) > 0
    /\ LastLog.op = "SetWindowSize"
    /\ Len(calls) >= 1
    /\ calls[1].op = "set_window_size"

\* C14: SetWindowSize(width, height) makes exactly one set_window_size call,
\* with its width as width and its height as height, and returns Ok when
\* the backend accepts and the backend's error when it rejects.
C14_SetWindowSizeDelegates ==
    (Len(log) > 0 /\ LastLog.op = "SetWindowSize") =>
      /\ Len(calls) = 1
      /\ calls[1].op = "set_window_size"
      /\ calls[1].width = test[Len(log)].width
      /\ calls[1].height = test[Len(log)].heigth
      /\ calls[1].accepted <=> LastLog.res = Ok
      /\ ~calls[1].accepted =>
           /\ LastLog.res = BackendError("set_window_rect")
           /\ status = "Failed"
           /\ result = LastLog.res

\* the backend rejected the resize of a window wider than it is high
C14_Witness ==
    /\ SizeSet
    /\ ~calls[1].accepted
    /\ calls[1].width = U32(0, 800)
    /\ calls[1].height = U32(0, 600)
    /\ status = "Failed"

\* the step in which an ExecuteAsync returns
ExecuteAsyncReturns ==
    /\ status = "Running"
    /\ pc = "next"
    /\ cmd.op = "ExecuteAsync"
    /\ Len(log') = Len(log) + 1

\* C15: an ExecuteAsync whose script execution fails returns that error and
\* leaves the store as it was; an ExecuteAsync without a variable name
\* leaves the store as it was also when it succeeds.
C15_ExecuteAsyncFrame ==
    [][ExecuteAsyncReturns =>
         /\ ~calls'[1].reply.ok =>
              /\ log'[Len(log')].res = calls'[1].reply.e
              /\ data' = data
         /\ ~cmd.variable.some => data' = data]_vars

\* the second ExecuteAsync on "title" failed; the first one's binding stands
C15_Witness ==
    /\ status = "Failed"
    /\ Len(log) = 2
    /\ log[1].op = "ExecuteAsync"
    /\ LastLog.op = "ExecuteAsync"
    /\ result = BackendError("execute")
    /\ get(data, "title") = Some(JsonString("Example"))

FrameOps == {"AssertAlert", "SetWindowSize", "WaitForElementPresent",
             "WaitForElementVisible", "WaitForElementEditable",
             "WaitForElementNotEditable"}

\* C16: AssertAlert, SetWindowSize and the present, visible, editable and
\* not-editable waits leave the store as it was, whatever they return.
C16_CommandsKeepStore ==
    [][(status = "Running" /\ cmd.op \in FrameOps) => data' = data]_vars

\* in a second run, over a store that holds a binding, an AssertAlert failed
C16_Witness ==
    /\ runs = 2
    /\ status = "Failed"
    /\ LastLog.op = "AssertAlert"
    /\ get(data, "title") = Some(JsonString("Example"))

\* C17: the size the adapter hands to the backend is the requested one,
\* for every u32 width and height.
C17_SizeHandedUnchanged ==
    SizeSet =>
      /\ calls[1].rect.width >= 0
      /\ calls[1].rect.width \div 65536 = calls[1].width.hi
      /\ calls[1].rect.width % 65536 = calls[1].width.lo
      /\ calls[1].rect.height >= 0
      /\ calls[1].rect.height \div 65536 = calls[1].height.hi
      /\ calls[1].rect.height % 65536 = calls[1].height.lo

\* C18: when reading the dialog text fails, AssertAlert returns that backend
\* error; it returns AssertFailed only when a text was read that differs
\* from the expected one.
C18_AlertReadFailure ==
    (/\ Len(log) > 0
     /\ LastLog.op = "AssertAlert"
     /\ Len(calls) = 1
     /\ calls[1].op = "alert_text") =>
      /\ ~calls[1].reply.ok =>
           /\ LastLog.res = calls[1].reply.e
           /\ LastLog.res.kind = "BackendError"
      /\ LastLog.res.kind = "AssertFailed" =>
           /\ calls[1].reply.ok
           /\ calls[1].reply.v # test[Len(log)].text

\* no dialog was displayed: the run failed with the backend's error
C18_Witness ==
    /\ status = "Failed"
    /\ LastLog.op = "AssertAlert"
    /\ calls[1].reply = Fault("alert_text")
    /\ result = BackendError("alert_text")

Terminal == {"Completed", "Failed"}

\* C11: a run goes Idle -> Running(1) -> ... and ends in exactly one of
\* Completed (every command succeeded) and Failed(step, cause); only a
\* further run(test) leaves that state, it is accepted after Completed and
\* after Failed alike while the session is open, and it starts at the first
\* command.
C11_RunStateMachine ==
    /\ [](/\ status \in {"Idle", "Running"} \cup Terminal
          /\ status = "Completed" =>
               /\ Len(log) = Len(test)
               /\ \A i \in DOMAIN log : log[i].res = Ok
               /\ result = Ok
          /\ status = "Failed" =>
               /\ step = Len(log)
               /\ LastLog.res # Ok
               /\ result = LastLog.res
          /\ (status \in Terminal /\ Alive /\ runs < MaxRuns) =>
               ENABLED (\E t \in Tests : StartRun(t)))
    /\ [][/\ (status = "Idle" /\ status' # "Idle") =>
               status' = "Running" /\ step' = 1
          /\ (status = "Running" /\ <<status, step>>' # <<status, step>>) =>
               \/ status' = "Running" /\ step' = step + 1
               \/ status' = "Failed" /\ step' = step
               \/ status' = "Completed" /\ step' = step /\ step = Len(test)
          /\ (status \in Terminal
              /\ <<status, step, test, log, result>>' # <<status, step, test, log, result>>) =>
               /\ status' = "Running"
               /\ step' = 1
               /\ log' = <<>>
               /\ trace' = <<>>
               /\ prev' = status]_vars

\* a Runner whose first run failed has started a second run at command 1
C11_Witness ==
    /\ runs = 2
    /\ prev = "Failed"
    /\ status = "Running"
    /\ trace = <<1>>
    /\ log = <<>>

\* the caller is inside a wait_for_* call of the adapter
InLoop == pc \in {"poll", "sleep"}

\* C13: every wait_for_* primitive is one sequential bounded poll loop:
\* the k-th probe happens at k * timeout / 3 and nowhere else, between two
\* probes the loop only sleeps, every step of the loop either moves the
\* clock or the probe count forward or returns, the loop is never stuck,
\* no more than four probes are made (one when the timeout is zero), and
\* the call returns from a probe with Ok or with an error
C13_BoundedPollLoop ==
    /\ [](InLoop =>
            /\ w.op \in Primitives
            /\ w.tries <= 3
            /\ w.elapsed <= w.timeout
            /\ w.timeout = 0 => w.tries = 0 /\ pc = "poll"
            /\ pc = "poll" => /\ 3 * w.elapsed = w.tries * w.timeout
                              /\ ENABLED Poll
            /\ pc = "sleep" => /\ (w.tries - 1) * w.timeout <= 3 * w.elapsed
                               /\ 3 * w.elapsed < w.tries * w.timeout
                               /\ ENABLED Sleep)
    /\ [][/\ (InLoop /\ InLoop') =>
               \/ /\ pc = "poll"
                  /\ w'.tries = w.tries + 1
                  /\ w'.elapsed = w.elapsed
               \/ /\ pc = "sleep"
                  /\ w'.tries = w.tries
                  /\ w'.elapsed = w.elapsed + 1
               \/ /\ pc' = pc
                  /\ w'.tries = w.tries
                  /\ w'.elapsed = w.elapsed
          /\ (InLoop /\ ~InLoop') =>
               /\ pc = "poll"
               /\ pc' = "next"
               /\ w' = NoWait
               /\ last'.op = w.op
               /\ last'.elapsed = w.elapsed
               /\ \/ last'.res = Ok
                  \/ last'.res.kind = "BackendError"]_vars

\* wait_for_visible with a timeout of 3 is at its fourth probe, at time 3
C13_Witness ==
    /\ pc = "poll"
    /\ w.op = "wait_for_visible"
    /\ w.timeout = 3
    /\ w.tries = 3
    /\ w.elapsed = 3
    /\ ~Cond(w.op, w.dom)

\* the successful answer_on_next_prompt calls still in force at event i
ArmedAt(i) ==
    {j \in 1..(i - 1) :
        /\ events[j].op = "answer_on_next_prompt"
        /\ events[j].res = Ok
        /\ \A k \in (j + 1)..(i - 1) : events[k].op # "prompt"}

Latest(js) == CHOOSE j \in js : \A k \in js : k <= j

\* for calls whose answer is in `answers`: the call made one execute whose
\* script is the two fragments, the install call and the arm call, and the
\* next prompt, and no later one, is answered with the answer
NextPromptAnswered(answers) ==
    /\ \A i \in 1..Len(events) :
         events[i].op = "prompt" =>
            IF ArmedAt(i) = {} THEN events[i].by = "native"
            ELSE events[Latest(ArmedAt(i))].answer \in answers =>
                    /\ events[i].by = "shim"
                    /\ events[i].answer = events[Latest(ArmedAt(i))].answer
    /\ (events # <<>> /\ events[Len(events)].op = "answer_on_next_prompt") =>
         /\ Len(calls) = 1
         /\ calls[1].op = "execute"
         /\ Len(calls[1].script) = 5
         /\ calls[1].script[1] = REPLACE_ALERT_METHOD
         /\ calls[1].script[2] = ANSWER_ON_NEXT_PROMPT
         /\ calls[1].script[3] =
              " replaceAlertMethod(null); answerOnNextPrompt("
         /\ calls[1].script[5] = ");"
         /\ (events[Len(events)].res = Ok) = calls[1].reply.ok

\* C12: each answer_on_next_prompt(runner, answer) makes exactly one script
\* execution (the install fragment, the arm fragment, the install call, the
\* arm call with the answer); the next prompt dialog after it, and only
\* that one, is answered with `answer`, later ones are native again
C12_NextPromptAnswered == NextPromptAnswered(Answers)

\* the same for the answers in which no NUL is followed by an octal digit
C12_AnswersWithoutNulOctal == NextPromptAnswered(Answers \ {<<0, 49>>})

====
